---- MODULE Spec2Model ----
(***************************************************************************)
(* A model of the torch_tensorrt.dynamo export subsystem:                  *)
(*   py/torch_tensorrt/dynamo/_exporter.py          (export, transform,    *)
(*       lift, get_duplicate_nodes, inline_torch_modules,                  *)
(*       copy_submodule_attributes, create_trt_exp_program,                *)
(*       inline_trt_modules)                                               *)
(*   py/torch_tensorrt/dynamo/runtime/_TorchTensorRTModule.py              *)
(*       (__init__, get_extra_state, set_extra_state, forward,             *)
(*       _pack_binding_names)                                              *)
(*                                                                         *)
(* A torch.fx graph is a record [nodes, used]: the ordered node list and   *)
(* the graph namespace (names ever handed out; erasing a node does not     *)
(* free its name).  A node is a record                                     *)
(*   [name, op, target, args, idx, engine, val, users]                     *)
(* where args are the names of the argument nodes, idx is the integer      *)
(* argument of an operator.getitem call (-1 otherwise), engine the engine  *)
(* handle argument of an execute_engine call ("" otherwise), val the       *)
(* meta["val"] entry and users the insertion-ordered users dict.           *)
(* Attribute names (state_dict keys, node targets) are sequences of        *)
(* tokens, "." being a token of its own.                                   *)
(***************************************************************************)
EXTENDS Integers, Sequences, FiniteSets, TLC

VARIABLES
    entry,            \* the function the caller invoked
    output_format,    \* export's output_format argument
    pc,               \* position of the running call
    err,              \* the exception that ended the call ("" if none)
    err_info,         \* what the exception's message names
    result,           \* what the call returned ("" if nothing yet)
    hook,             \* sys.breakpointhook: "pdb" (default) or "0" (PYTHONBREAKPOINT=0)
    suspended,        \* TRUE while the debugger prompt waits for input
    gm,               \* the GraphModule the caller holds (mutated in place)
    gm0,              \* the GraphModule as it was when the call was made
    sig,              \* the ExportGraphSignature (mutated in place by lift)
    outputs_map,      \* shape analysis result, name -> list of shapes
    trt_i,            \* inline_trt_modules: index into named_children
    cur,              \* inline_torch_modules / lift: next node of the iteration
    sub,              \* inline_torch_modules: the call_module node being inlined
    updated_state_dict, \* copy_submodule_attributes' local
    lift_loc,         \* lift's locals
    val_map,          \* inline_torch_modules: the rename map of the last copy
    binding_names,    \* _pack_binding_names' argument
    packed,           \* its result
    unpacked,         \* the list split back out of packed
    self,             \* the TorchTensorRTModule a method is called on
    self0,            \* the module as the caller built it
    fwd_inputs,       \* forward's *inputs
    state,            \* the value get_extra_state returned
    executed          \* TRUE once execute_engine has been called

ctl == <<entry, output_format, pc, err, err_info, result, hook, suspended>>
gmv == <<gm, gm0, sig, outputs_map>>
loc == <<trt_i, cur, sub, updated_state_dict, lift_loc, val_map>>
mdv == <<self, self0, fwd_inputs, state, executed>>
rtv == <<binding_names, packed, unpacked, mdv>>
vars == <<ctl, gmv, loc, rtv>>

----------------------------------------------------------------------------
(* Bounds of the model                                                      *)

MaxAttrs == 3
MaxUserInputs == 2
MaxStages == 2
MaxNames == 2
MaxNameLen == 2

----------------------------------------------------------------------------
(* Sequence helpers                                                         *)

Range(s) == {s[i] : i \in 1..Len(s)}

RECURSIVE SeqsUpTo(_, _)
SeqsUpTo(S, n) ==
    IF n = 0 THEN {<<>>}
    ELSE LET shorter == SeqsUpTo(S, n - 1)
         IN shorter \cup {Append(s, x) : s \in {t \in shorter : Len(t) = n - 1}, x \in S}

NoRepeat(s) == \A i, j \in 1..Len(s) : i # j => s[i] # s[j]

RECURSIVE Without(_, _)
Without(s, x) ==
    IF s = <<>> THEN <<>>
    ELSE IF Head(s) = x THEN Without(Tail(s), x)
    ELSE <<Head(s)>> \o Without(Tail(s), x)

AppendNew(s, x) == IF x \in Range(s) THEN s ELSE Append(s, x)

InsertSeq(s, i, x) == SubSeq(s, 1, i - 1) \o <<x>> \o SubSeq(s, i, Len(s))

RemoveAt(s, i) == SubSeq(s, 1, i - 1) \o SubSeq(s, i + 1, Len(s))

\* Python evaluates an argument once, before the call.  An operator below that
\* reads an argument many times takes its value first: it is written
\*     CHOOSE r \in {e(g) : g \in {G}} : TRUE
\* which is e(G) with G evaluated once.

\* The sequence f as a tuple of its elements
Tuple(f) == SubSeq(f, 1, Len(f))

----------------------------------------------------------------------------
(* torch.fx graph primitives                                                *)

NoVal == [isList |-> FALSE, shapes |-> <<>>]
TensorVal(shape) == [isList |-> FALSE, shapes |-> <<shape>>]
ListVal(shapes) == [isList |-> TRUE, shapes |-> shapes]

MkNode(name, op, target, args, idx, engine, val) ==
    [name |-> name, op |-> op, target |-> target, args |-> args, idx |-> idx,
     engine |-> engine, val |-> val, users |-> <<>>]

\* The string a target is turned into when it names a node: the tokens joined,
\* every character illegal in an identifier (".") replaced by "_".
RECURSIVE TargetStr(_)
TargetStr(t) ==
    IF t = <<>> THEN ""
    ELSE (IF Head(t) = "." THEN "_" ELSE Head(t)) \o TargetStr(Tail(t))

\* _Namespace.create_name: the candidate, or the candidate with the first
\* free numeric suffix.
RECURSIVE Suffixed(_, _, _)
Suffixed(base, n, used) ==
    IF (base \o "_" \o ToString(n)) \notin used THEN base \o "_" \o ToString(n)
    ELSE Suffixed(base, n + 1, used)

CreateName(candidate, used) ==
    IF candidate \notin used THEN candidate ELSE Suffixed(candidate, 1, used)

NodeNames(G) == {G.nodes[i].name : i \in 1..Len(G.nodes)}

HasNode(G, n) == n \in NodeNames(G)

IndexOf(G, n) == CHOOSE i \in 1..Len(G.nodes) : G.nodes[i].name = n

NodeOf(G, n) == G.nodes[IndexOf(G, n)]

\* The node after n in graph order, "" at the end of the list.
Successor(G, n) ==
    IF IndexOf(G, n) < Len(G.nodes) THEN G.nodes[IndexOf(G, n) + 1].name ELSE ""

FirstName(G) == IF G.nodes = <<>> THEN "" ELSE G.nodes[1].name

\* users.setdefault(user) on every node of `inputs`
RegisterUser(nodes, inputs, user) ==
    CHOOSE r \in
        {Tuple([i \in 1..Len(ns) |->
                   IF ns[i].name \in ins
                   THEN [ns[i] EXCEPT !.users = AppendNew(@, u)]
                   ELSE ns[i]]) : ns \in {nodes}, ins \in {Range(inputs)}, u \in {user}} : TRUE

\* users.pop(user) on every node of `inputs`
UnregisterUser(nodes, inputs, user) ==
    CHOOSE r \in
        {Tuple([i \in 1..Len(ns) |->
                   IF ns[i].name \in ins
                   THEN [ns[i] EXCEPT !.users = Without(@, u)]
                   ELSE ns[i]]) : ns \in {nodes}, ins \in {Range(inputs)}, u \in {user}} : TRUE

\* Node.__update_args_kwargs: the node leaves the users of all its old inputs
\* and is appended to the users of its new ones.
UpdateArgs(nodes, n, new_args) ==
    CHOOSE r \in
        {LET i == CHOOSE k \in 1..Len(ns) : ns[k].name = n
             dropped == UnregisterUser(ns, ns[i].args, n)
         IN RegisterUser([dropped EXCEPT ![i].args = new_args], new_args, n) :
            ns \in {nodes}} : TRUE

\* Graph.create_node under an insert point: the node lands at index `pos`.
CreateNode(G, pos, node) ==
    CHOOSE r \in
        {[nodes |-> RegisterUser(InsertSeq(g.nodes, pos, new), new.args, new.name),
          used |-> g.used \cup {new.name}] : g \in {G}, new \in {node}} : TRUE

RECURSIVE ReplaceUses(_, _, _, _)
ReplaceUses(nodes, to_process, old, new) ==
    IF to_process = <<>> THEN nodes
    ELSE CHOOSE r \in
             {LET u == Head(to_process)
                  i == CHOOSE k \in 1..Len(ns) : ns[k].name = u
                  a == ns[i].args
                  new_args == Tuple([k \in 1..Len(a) |-> IF a[k] = old THEN new ELSE a[k]])
              IN ReplaceUses(UpdateArgs(ns, u, new_args), Tail(to_process), old, new) :
                 ns \in {nodes}} : TRUE

\* Node.replace_all_uses_with
ReplaceAllUsesWith(G, old, new) ==
    CHOOSE r \in
        {[g EXCEPT !.nodes = ReplaceUses(g.nodes, NodeOf(g, o).users, o, n)] :
            g \in {G}, o \in {old}, n \in {new}} : TRUE

EraseNode(G, n) ==
    CHOOSE r \in
        {LET i == IndexOf(g, n)
         IN [g EXCEPT !.nodes = RemoveAt(UnregisterUser(g.nodes, g.nodes[i].args, n), i)] :
            g \in {G}} : TRUE

\* Node.is_impure: placeholders and outputs are never dead code.
IsImpure(node) == node.op \in {"placeholder", "output"}

\* Graph.eliminate_dead_code: one pass over the nodes in reverse order.
RECURSIVE DceFrom(_, _)
DceFrom(G, i) ==
    IF i = 0 THEN G
    ELSE CHOOSE r \in
             {IF ~IsImpure(g.nodes[i]) /\ g.nodes[i].users = <<>>
              THEN DceFrom(EraseNode(g, g.nodes[i].name), i - 1)
              ELSE DceFrom(g, i - 1) : g \in {G}} : TRUE

EliminateDeadCode(G) == DceFrom(G, Len(G.nodes))

\* Appends the nodes of `new` to the end of the graph, in order.
RECURSIVE AppendNodes(_, _)
AppendNodes(G, new) ==
    IF new = <<>> THEN G
    ELSE AppendNodes(CreateNode(G, Len(G.nodes) + 1, Head(new)), Tail(new))

EmptyGraph == [nodes |-> <<>>, used |-> {}]

----------------------------------------------------------------------------
(* torch.nn.Module state of a GraphModule                                   *)
(*   gm.graph      the fx graph                                             *)
(*   gm.children   named_children(), in registration order; each child is   *)
(*                 [name, graph, state, params, engine]                     *)
(*   gm.state      own state_dict keys; gm.params / gm.buffers the own      *)
(*                 named_parameters / named_buffers among them              *)
(*   gm.attrs      own attributes a get_attr target can resolve to          *)
(*   gm.fake_mode  whether detect_fake_mode finds a fake mode               *)

Prefixed(name, keys) == {<<name, ".">> \o k : k \in keys}

ChildNames(m) == {m.children[i].name : i \in 1..Len(m.children)}

ChildOf(m, name) ==
    m.children[CHOOSE i \in 1..Len(m.children) : m.children[i].name = name]

\* Module.state_dict().keys(): own entries, then every child's under its prefix.
StateDictKeys(m) ==
    m.state \cup UNION {Prefixed(m.children[i].name, m.children[i].state) :
                           i \in 1..Len(m.children)}

\* names of Module.named_parameters()
NamedParameters(m) ==
    m.params \cup UNION {Prefixed(m.children[i].name, m.children[i].params) :
                            i \in 1..Len(m.children)}

\* names of Module.named_buffers()
NamedBuffers(m) == m.buffers

\* Graph.lint's target check: every atom of the target resolves on the module.
TargetResolves(m, target) ==
    \/ target \in m.attrs
    \/ Len(target) = 1 /\ target[1] \in ChildNames(m)
    \/ \E i \in 1..Len(m.children) :
          target \in Prefixed(m.children[i].name, m.children[i].state)

\* Graph.lint: arguments are defined before they are used, names are unique,
\* get_attr and call_module targets exist on the owning module.
Lint(m) ==
    LET ns == m.graph.nodes
    IN /\ \A i \in 1..Len(ns) : \A k \in 1..Len(ns[i].args) :
              \E j \in 1..(i - 1) : ns[j].name = ns[i].args[k]
       /\ \A i, j \in 1..Len(ns) : i # j => ns[i].name # ns[j].name
       /\ \A i \in 1..Len(ns) :
              ns[i].op \in {"get_attr", "call_module"} => TargetResolves(m, ns[i].target)

----------------------------------------------------------------------------
(* Outcome of a call                                                        *)

Raise(exc, info) ==
    /\ pc' = "raised"
    /\ err' = exc
    /\ err_info' = info
    /\ result' = ""
    /\ suspended' = FALSE
    /\ UNCHANGED <<entry, output_format, hook>>

Goto(where) ==
    /\ pc' = where
    /\ UNCHANGED <<entry, output_format, err, err_info, result, hook, suspended>>

Return(value) ==
    /\ pc' = "done"
    /\ result' = value
    /\ UNCHANGED <<entry, output_format, err, err_info, hook, suspended>>

Running(where) == pc = where /\ ~suspended

----------------------------------------------------------------------------
(* create_trt_exp_program and lift                                          *)

Placeholders(G) == SelectSeq(G.nodes, LAMBDA n : n.op = "placeholder")

OutputNodes(G) == SelectSeq(G.nodes, LAMBDA n : n.op = "output")

InputSpec(kind, name, target) == [kind |-> kind, arg |-> name, target |-> target]

\* ExportGraphSignature.user_inputs
UserInputs(s) ==
    {s.input_specs[i].arg : i \in {j \in 1..Len(s.input_specs) :
                                      s.input_specs[j].kind = "USER_INPUT"}}

\* _exporter.py 289-305: every placeholder becomes a USER_INPUT spec, every
\* argument of the first output node a USER_OUTPUT spec.
create_trt_exp_program ==
    /\ Running("create")
    /\ IF OutputNodes(gm.graph) = <<>>
       THEN Raise("AssertionError", <<"output_nodes">>) /\ UNCHANGED sig
       ELSE LET input_nodes == Placeholders(gm.graph)
                out == OutputNodes(gm.graph)[1].args
            IN /\ sig' = [input_specs |->
                              [i \in 1..Len(input_nodes) |->
                                  InputSpec("USER_INPUT", input_nodes[i].name,
                                            input_nodes[i].target)],
                          output_specs |->
                              [i \in 1..Len(out) |->
                                  InputSpec("USER_OUTPUT", out[i],
                                            NodeOf(gm.graph, out[i]).target)]]
               /\ Goto("lift")
    /\ UNCHANGED <<gm, gm0, outputs_map, loc, rtv>>

\* _exporter.py 96-100: the first placeholder the signature declares a user input
FirstUserInput(G, s) ==
    LET declared == SelectSeq(G.nodes,
                       LAMBDA n : n.op = "placeholder" /\ n.name \in UserInputs(s))
    IN IF declared = <<>> THEN "" ELSE declared[1].name

\* _exporter.py 88-104
lift_begin ==
    /\ Running("lift")
    /\ IF ~gm.fake_mode
       THEN Raise("AssertionError", <<"fake_mode">>) /\ UNCHANGED <<cur, lift_loc>>
       ELSE /\ lift_loc' = [state_dict |-> [k \in StateDictKeys(gm) |-> "Tensor"],
                            first_user_input |-> FirstUserInput(gm.graph, sig),
                            non_user_input_idx |-> 0]
            /\ cur' = FirstName(gm.graph)
            /\ Goto("lift_loop")
    /\ UNCHANGED <<gmv, trt_i, sub, updated_state_dict, val_map, rtv>>

\* The next get_attr node the iteration over gm.graph.nodes reaches from `from`
\* ("" when the iteration ends without meeting one).
NextGetAttr(G, from) ==
    IF from = "" THEN ""
    ELSE LET later == {i \in IndexOf(G, from)..Len(G.nodes) : G.nodes[i].op = "get_attr"}
         IN IF later = {} THEN ""
            ELSE G.nodes[CHOOSE i \in later : \A j \in later : i <= j].name

\* _exporter.py 113-124
InputKindOf(m, target) ==
    IF target \in NamedBuffers(m) THEN "BUFFER"
    ELSE IF target \in NamedParameters(m) THEN "PARAMETER"
    ELSE "CONSTANT_TENSOR"

\* An insertion point after the first user input instead of before it
InsertPosAfter(G, first_user_input) ==
    IF first_user_input = "" THEN 1 ELSE IndexOf(G, first_user_input) + 1

\* graph.inserting_before(first_user_input): before that node, or at the head of
\* the graph when there is none.
InsertPos(G, first_user_input) ==
    IF first_user_input = "" THEN 1 ELSE IndexOf(G, first_user_input)

\* fake_mode.from_tensor(constant_tensor): a fake tensor of the constant's shape
\* (the shapes of the stored tensors are not modelled)
FromTensor == TensorVal(<<1>>)

\* _exporter.py 127-135: the placeholder that replaces get_attr node `n`
LiftedGraph(G, n, first_user_input) ==
    CHOOSE r \in
        {LET node == NodeOf(g, n)
             name == CreateName(TargetStr(node.target), g.used)
             ph == MkNode(name, "placeholder", node.target, <<>>, -1, "", FromTensor)
             added == CreateNode(g, InsertPos(g, first_user_input), ph)
         IN EraseNode(ReplaceAllUsesWith(added, n, name), n) : g \in {G}} : TRUE

\* _exporter.py 139-146
LiftedSpecs(specs, at, kind, name, target) ==
    InsertSeq(specs, at + 1, InputSpec(kind, name, target))

\* A membership test that lets every target through
TargetNeverMissing(target, state_dict) == FALSE

\* _exporter.py 107: node.target not in state_dict
TargetMissing(target, state_dict) == target \notin DOMAIN state_dict

\* _exporter.py 105-147, one iteration that meets a get_attr node
lift_get_attr ==
    /\ Running("lift_loop")
    /\ NextGetAttr(gm.graph, cur) # ""
    /\ \E n \in {NextGetAttr(gm.graph, cur)} :
       \E node \in {NodeOf(gm.graph, n)} :
          IF TargetMissing(node.target, lift_loc.state_dict)
          THEN /\ Raise("ValueError", <<n, TargetStr(node.target)>>)
               /\ UNCHANGED <<gm, sig, cur, lift_loc>>
          ELSE \E kind \in {InputKindOf(gm, node.target)} :
               \E name \in {CreateName(TargetStr(node.target), gm.graph.used)} :
                  /\ gm' = [gm EXCEPT !.graph =
                               LiftedGraph(gm.graph, n, lift_loc.first_user_input)]
                  /\ sig' = [sig EXCEPT !.input_specs =
                               LiftedSpecs(@, lift_loc.non_user_input_idx, kind, name,
                                           node.target)]
                  /\ lift_loc' = [lift_loc EXCEPT
                         !.non_user_input_idx = @ + 1,
                         !.state_dict = [k \in DOMAIN @ |->
                             IF k = node.target /\ k \in NamedParameters(gm)
                             THEN "Parameter" ELSE @[k]]]
                  /\ cur' = Successor(gm.graph, n)
                  /\ Goto("lift_loop")
    /\ UNCHANGED <<gm0, outputs_map, trt_i, sub, updated_state_dict, val_map, rtv>>

\* _exporter.py 149-152: the iteration is over; clean, lint and return
lift_end ==
    /\ Running("lift_loop")
    /\ NextGetAttr(gm.graph, cur) = ""
    /\ \E cleaned \in {[gm EXCEPT !.graph = EliminateDeadCode(gm.graph)]} :
          /\ gm' = cleaned
          /\ IF Lint(cleaned) THEN Goto("assemble")
             ELSE Raise("RuntimeError", <<"lint">>)
    /\ UNCHANGED <<gm0, sig, outputs_map, loc, rtv>>

\* _exporter.py 311-321: ExportedProgram(gm, gm.graph, signature, state_dict, ...)
assemble ==
    /\ Running("assemble")
    /\ Return("ExportedProgram")
    /\ UNCHANGED <<gmv, loc, rtv>>

----------------------------------------------------------------------------
(* export and transform                                                     *)

AccName(i) == "_run_on_acc_" \o ToString(i)
GpuName(i) == "_run_on_gpu_" \o ToString(i)

\* "_run_on_acc" in name / "_run_on_gpu" in name, over the names of the model
IsAcc(name) == \E i \in 0..9 : name = AccName(i)
IsGpu(name) == \E i \in 0..9 : name = GpuName(i)

\* Arrival at a breakpoint() call: under the default hook the debugger prompt
\* opens and the call waits for input; under PYTHONBREAKPOINT=0 it is a no-op.
Break(where) ==
    /\ pc' = where
    /\ suspended' = (hook = "pdb")
    /\ UNCHANGED <<entry, output_format, err, err_info, result, hook>>

\* A dispatch that falls back to the documented default format
DispatchDefaulting(format) ==
    IF format \in {"torchscript", "ts"} THEN "ts"
    ELSE IF format \in {"graph_module", "fx"} THEN "fx"
    ELSE "ep"

\* _exporter.py 30-38: the branch export takes for an output_format
Dispatch(format) ==
    IF format \in {"torchscript", "ts"} THEN "ts"
    ELSE IF format \in {"exported_program", "ep"} THEN "ep"
    ELSE IF format \in {"graph_module", "fx"} THEN "fx"
    ELSE "invalid"

\* _exporter.py 30-41
export ==
    /\ Running("export")
    /\ LET branch == Dispatch(output_format)
       IN IF branch = "ts" THEN Return("ScriptModule")
          ELSE IF branch = "ep" THEN Goto("shape_analysis")
          ELSE IF branch = "fx" THEN Return("GraphModule")
          ELSE Raise("ValueError", <<output_format>>)
    /\ UNCHANGED <<gmv, loc, rtv>>

\* _exporter.py 59: partitioning.run_shape_analysis maps every accelerated
\* submodule's name to the list of its output shapes.
run_shape_analysis ==
    /\ Running("shape_analysis")
    /\ outputs_map' = [n \in {c \in ChildNames(gm) : IsAcc(c)} |-> ChildOf(gm, n).out_shapes]
    /\ trt_i' = 1
    /\ Goto(IF gm.children = <<>> THEN "inline_torch_begin" ELSE "inline_trt")
    /\ UNCHANGED <<gm, gm0, sig, cur, sub, updated_state_dict, lift_loc, val_map, rtv>>

----------------------------------------------------------------------------
(* inline_trt_modules                                                       *)

\* _exporter.py 344-361: the engine call, inserted before the call_module node,
\* with one descriptor per declared output shape
EngineNode(G, call, engine, shapes) ==
    MkNode(CreateName("execute_engine_default", G.used), "call_function",
           <<"execute_engine">>, call.args, -1, engine, ListVal(shapes))

\* _exporter.py 374-376: for idx, getitem_node in enumerate(trt_node.users),
\* as far as the metadata list reaches
BackfillMeta(G, trt) ==
    CHOOSE r \in
        {LET us == NodeOf(g, trt).users
             vals == NodeOf(g, trt).val.shapes
         IN [g EXCEPT !.nodes =
                Tuple([i \in 1..Len(g.nodes) |->
                    IF \E k \in 1..Len(us) : us[k] = g.nodes[i].name /\ k <= Len(vals)
                    THEN [g.nodes[i] EXCEPT !.val =
                             TensorVal(vals[CHOOSE k \in 1..Len(us) :
                                                us[k] = g.nodes[i].name])]
                    ELSE g.nodes[i]])] : g \in {G}} : TRUE

\* A single-output rewrite that hands the users the engine call itself
SingleOutputNoGetitem(G, call, trt) == ReplaceAllUsesWith(G, call, trt)

\* _exporter.py 363-368
SingleOutput(G, call, trt) ==
    CHOOSE r \in
        {LET getitem == MkNode(CreateName("getitem", g.used), "call_function",
                               <<"getitem">>, <<trt>>, 0, "", NodeOf(g, trt).val)
             added == CreateNode(g, IndexOf(g, trt) + 1, getitem)
         IN ReplaceAllUsesWith(added, call, getitem.name) : g \in {G}} : TRUE

\* _exporter.py 369-376
MultiOutput(G, call, trt) == BackfillMeta(ReplaceAllUsesWith(G, call, trt), trt)

\* _exporter.py 330-379, the iteration for child number trt_i
inline_trt_modules ==
    /\ Running("inline_trt")
    /\ trt_i <= Len(gm.children)
    /\ \E child \in {gm.children[trt_i]} :
       \E name \in {child.name} :
       \E G \in {gm.graph} :
       \E next \in {IF trt_i = Len(gm.children) THEN "inline_torch_begin" ELSE "inline_trt"} :
          IF ~IsAcc(name) THEN Goto(next) /\ UNCHANGED gm
          ELSE IF ~HasNode(G, name) \/ NodeOf(G, name).args = <<>>
          THEN Raise("AssertionError", <<name>>) /\ UNCHANGED gm
          ELSE \E call \in {NodeOf(G, name)} :
               \E shapes \in {outputs_map[name]} :
               \E trt \in {EngineNode(G, call, child.engine, shapes)} :
               \E withTrt \in {CreateNode(G, IndexOf(G, name), trt)} :
                  IF Len(shapes) = 0
                  THEN /\ gm' = [gm EXCEPT !.graph = withTrt]
                       /\ Raise("AssertionError", <<name>>)
                  ELSE IF Len(shapes) > 1 /\ Len(call.users) > Len(shapes)
                  THEN /\ gm' = [gm EXCEPT !.graph = MultiOutput(withTrt, name, trt.name)]
                       /\ Raise("IndexError", <<name>>)
                  ELSE /\ gm' = [gm EXCEPT !.graph =
                                    EraseNode(IF Len(shapes) = 1
                                              THEN SingleOutput(withTrt, name, trt.name)
                                              ELSE MultiOutput(withTrt, name, trt.name),
                                              name)]
                       /\ Goto(next)
    /\ trt_i' = trt_i + 1
    /\ UNCHANGED <<gm0, sig, outputs_map, cur, sub, updated_state_dict, lift_loc, val_map, rtv>>

----------------------------------------------------------------------------
(* inline_torch_modules and copy_submodule_attributes                       *)

\* _exporter.py 184-185
inline_torch_begin ==
    /\ Running("inline_torch_begin")
    /\ \E cleaned \in {[gm EXCEPT !.graph = EliminateDeadCode(gm.graph)]} :
          /\ gm' = cleaned
          /\ cur' = FirstName(cleaned.graph)
          /\ IF Lint(cleaned) THEN Goto("inline_torch")
             ELSE Raise("RuntimeError", <<"lint">>)
    /\ UNCHANGED <<gm0, sig, outputs_map, trt_i, sub, updated_state_dict, lift_loc, val_map, rtv>>

\* The next host-executed call_module node the iteration over gm.graph.nodes
\* reaches from `from` ("" when the iteration ends without meeting one).
NextGpuCall(G, from) ==
    IF from = "" THEN ""
    ELSE LET later == {i \in IndexOf(G, from)..Len(G.nodes) :
                          G.nodes[i].op = "call_module" /\ IsGpu(G.nodes[i].name)}
         IN IF later = {} THEN ""
            ELSE G.nodes[CHOOSE i \in later : \A j \in later : i <= j].name

\* _exporter.py 155-175; both lists as node names
get_duplicate_nodes(G, S) ==
    LET submodule_placeholder_inputs == Placeholders(S)
        submodule_input_node_names == {submodule_placeholder_inputs[i].name :
                                          i \in 1..Len(submodule_placeholder_inputs)}
        gm_node_names == NodeNames(G)
        submodule_duplicate_inputs ==
            SelectSeq(submodule_placeholder_inputs, LAMBDA n : n.name \in gm_node_names)
        gm_duplicate_inputs ==
            SelectSeq(G.nodes, LAMBDA n : n.name \in submodule_input_node_names)
    IN <<Tuple([i \in 1..Len(submodule_duplicate_inputs) |->
                   submodule_duplicate_inputs[i].name]),
         Tuple([i \in 1..Len(gm_duplicate_inputs) |-> gm_duplicate_inputs[i].name])>>

\* Graph.graph_copy(g, val_map) under inserting_before(at), val_map being
\* `values`: every node of g that it does not already map is copied before
\* `at`, its arguments mapped through it; the result is the graph and the
\* mapped output value.
RECURSIVE GraphCopy(_, _, _, _)
GraphCopy(G, src, values, at) ==
    IF src = <<>> THEN [graph |-> G, output |-> ""]
    ELSE CHOOSE r \in
             {IF node.name \in DOMAIN map THEN GraphCopy(g, Tail(src), map, at)
              ELSE IF node.op = "output"
              THEN [graph |-> g, output |-> map[node.args[1]]]
              ELSE LET copy == [node EXCEPT
                                   !.name = CreateName(node.name, g.used),
                                   !.args = Tuple([k \in 1..Len(node.args) |->
                                                      map[node.args[k]]]),
                                   !.users = <<>>]
                   IN GraphCopy(CreateNode(g, IndexOf(g, at), copy), Tail(src),
                                map @@ (node.name :> copy.name), at) :
                 g \in {G}, map \in {values}, node \in {Head(src)}} : TRUE

\* A rename map that was never filled
ValMapEmpty(submodule_duplicate_inputs, gm_duplicate_inputs) == <<>>

\* _exporter.py 200-202: val_map[submodule_duplicate_inputs[i]] = gm_duplicate_inputs[i]
ValMap(submodule_duplicate_inputs, gm_duplicate_inputs) ==
    [n \in Range(submodule_duplicate_inputs) |->
        gm_duplicate_inputs[CHOOSE i \in 1..Len(submodule_duplicate_inputs) :
                                submodule_duplicate_inputs[i] = n]]

\* _exporter.py 224-231
RECURSIVE ReplaceEach(_, _, _)
ReplaceEach(G, olds, news) ==
    IF olds = <<>> THEN G
    ELSE ReplaceEach(ReplaceAllUsesWith(G, Head(olds), Head(news)), Tail(olds), Tail(news))

RECURSIVE EraseEach(_, _)
EraseEach(G, ns) ==
    IF ns = <<>> THEN G ELSE EraseEach(EraseNode(G, Head(ns)), Tail(ns))

\* _exporter.py 187-235, one iteration that meets a host-executed call_module
\* node, up to the breakpoint() of line 235
inline_torch_copy ==
    /\ Running("inline_torch")
    /\ NextGpuCall(gm.graph, cur) # ""
    /\ \E gm_node \in {NextGpuCall(gm.graph, cur)} :
       \E G \in {gm.graph} :
          /\ sub' = gm_node
          /\ cur' = Successor(G, gm_node)
          /\ IF gm_node \notin ChildNames(gm)
             THEN Raise("AttributeError", <<gm_node>>) /\ UNCHANGED <<gm, val_map>>
             ELSE
             \E submodule \in {ChildOf(gm, gm_node)} :
             \E submodule_inputs \in {NodeOf(G, gm_node).args} :
             \E dups \in {get_duplicate_nodes(G, submodule.graph)} :
             \E submodule_duplicate_inputs \in {dups[1]} :
             \E gm_duplicate_inputs \in {dups[2]} :
                IF Len(submodule_duplicate_inputs) # Len(gm_duplicate_inputs)
                THEN Raise("AssertionError", <<gm_node>>) /\ UNCHANGED <<gm, val_map>>
                ELSE
                \E renamed \in {ValMap(submodule_duplicate_inputs, gm_duplicate_inputs)} :
                \E copied \in {GraphCopy(G, submodule.graph.nodes, renamed, gm_node)} :
                \E submodule_output \in {copied.output} :
                \E submodule_placeholder_input_names \in
                        {{n.name : n \in Range(Placeholders(submodule.graph))}} :
                \E gm_added_placeholder_inputs \in
                        {LET sel == SelectSeq(copied.graph.nodes,
                                      LAMBDA n : n.name \in submodule_placeholder_input_names)
                         IN Tuple([i \in 1..Len(sel) |-> sel[i].name])} :
                   /\ val_map' = renamed
                   /\ IF Len(submodule_duplicate_inputs) = 0
                      THEN IF Len(submodule_inputs) # Len(gm_added_placeholder_inputs)
                           THEN /\ gm' = [gm EXCEPT !.graph = copied.graph]
                                /\ Raise("AssertionError", <<gm_node>>)
                           ELSE /\ gm' = [gm EXCEPT !.graph =
                                     ReplaceAllUsesWith(
                                         EraseEach(ReplaceEach(copied.graph,
                                                               gm_added_placeholder_inputs,
                                                               submodule_inputs),
                                                   gm_added_placeholder_inputs),
                                         gm_node, submodule_output)]
                                /\ Break("bp235")
                      ELSE /\ gm' = [gm EXCEPT !.graph =
                                        ReplaceAllUsesWith(copied.graph, gm_node, submodule_output)]
                           /\ Break("bp235")
    /\ UNCHANGED <<gm0, sig, outputs_map, trt_i, updated_state_dict, lift_loc, rtv>>

\* _exporter.py 237, 253-256: the call of copy_submodule_attributes (from line
\* 237, or by a caller of its own), up to its first breakpoint()
copy_submodule_attributes ==
    /\ Running("bp235") \/ Running("copy_submodule_attributes")
    /\ Break("bp256")
    /\ UNCHANGED <<gmv, loc, rtv>>

\* key.replace(pat, ""): every occurrence of the token sequence pat removed
RECURSIVE RemoveAll(_, _)
RemoveAll(key, pat) ==
    IF Len(key) < Len(pat) THEN key
    ELSE IF SubSeq(key, 1, Len(pat)) = pat
    THEN RemoveAll(SubSeq(key, Len(pat) + 1, Len(key)), pat)
    ELSE <<Head(key)>> \o RemoveAll(Tail(key), pat)

\* Module.state_dict().keys() in dict order
RECURSIVE SetToSeq(_)
SetToSeq(S) ==
    IF S = {} THEN <<>>
    ELSE LET x == CHOOSE x \in S : TRUE IN <<x>> \o SetToSeq(S \ {x})

RECURSIVE ChildrenKeys(_)
ChildrenKeys(children) ==
    IF children = <<>> THEN <<>>
    ELSE SetToSeq(Prefixed(Head(children).name, Head(children).state))
         \o ChildrenKeys(Tail(children))

StateDictSeq(m) == SetToSeq(m.state) \o ChildrenKeys(m.children)

\* _exporter.py 257-263: the dict as a function from the new key to the key
\* whose tensor it holds
RECURSIVE UpdatedStateDict(_, _, _, _)
UpdatedStateDict(keys, sub_keys, submodule_name, acc) ==
    IF keys = <<>> THEN acc
    ELSE LET key == Head(keys)
             parent_key == RemoveAll(key, <<submodule_name, ".">>)
             new_key == IF parent_key \in sub_keys THEN parent_key ELSE key
             rest == [k \in DOMAIN acc \ {new_key} |-> acc[k]]
         IN UpdatedStateDict(Tail(keys), sub_keys, submodule_name,
                             rest @@ (new_key :> key))

\* _exporter.py 257-264
copy_attributes_build ==
    /\ Running("bp256")
    /\ updated_state_dict' =
           UpdatedStateDict(StateDictSeq(gm), ChildOf(gm, sub).state, sub, <<>>)
    /\ Break("bp264")
    /\ UNCHANGED <<gmv, trt_i, cur, sub, lift_loc, val_map, rtv>>

\* Module.load_state_dict(state_dict, strict=True): no missing and no
\* unexpected key
LoadStateDictOk(m, d) == DOMAIN d = StateDictKeys(m)

\* _exporter.py 265, and 240 when inline_torch_modules made the call
copy_attributes_load ==
    /\ Running("bp264")
    /\ IF ~LoadStateDictOk(gm, updated_state_dict)
       THEN Raise("RuntimeError", <<"load_state_dict">>) /\ UNCHANGED gm
       ELSE IF entry = "copy_submodule_attributes"
       THEN Return("None") /\ UNCHANGED gm
       ELSE /\ gm' = [gm EXCEPT !.graph = EraseNode(gm.graph, sub)]
            /\ Goto("inline_torch")
    /\ UNCHANGED <<gm0, sig, outputs_map, loc, rtv>>

\* _exporter.py 187 and 242, 66: the iteration is over; transform reaches its
\* breakpoint()
inline_torch_end ==
    /\ Running("inline_torch")
    /\ NextGpuCall(gm.graph, cur) = ""
    /\ Break("bp66")
    /\ UNCHANGED <<gmv, loc, rtv>>

\* GraphModule.delete_all_unused_submodules: a child stays only if a
\* call_module or get_attr node's target names it
Referenced(G, name) ==
    \E i \in 1..Len(G.nodes) :
        /\ G.nodes[i].op \in {"call_module", "get_attr"}
        /\ G.nodes[i].target # <<>>
        /\ G.nodes[i].target[1] = name

\* _exporter.py 68-72
transform_clean ==
    /\ Running("bp66")
    /\ \E kept \in {[gm EXCEPT !.children =
                         SelectSeq(@, LAMBDA c : Referenced(gm.graph, c.name))]} :
       \E cleaned \in {[kept EXCEPT !.graph = EliminateDeadCode(kept.graph)]} :
          /\ gm' = cleaned
          /\ IF Lint(cleaned) THEN Goto("create")
             ELSE Raise("RuntimeError", <<"lint">>)
    /\ UNCHANGED <<gm0, sig, outputs_map, loc, rtv>>

\* The debugger prompt: the person at the terminal continues, or quits.
debugger_continue ==
    /\ suspended
    /\ suspended' = FALSE
    /\ UNCHANGED <<entry, output_format, pc, err, err_info, result, hook>>
    /\ UNCHANGED <<gmv, loc, rtv>>

debugger_quit ==
    /\ suspended
    /\ Raise("BdbQuit", <<pc>>)
    /\ UNCHANGED <<gmv, loc, rtv>>

----------------------------------------------------------------------------
(* TorchTensorRTModule._pack_binding_names and the runtime's unpacking      *)
(* A binding name is a sequence of characters.                              *)

\* torch.ops.tensorrt.SERIALIZED_ENGINE_BINDING_DELIM()[0]
Delim == "%"

\* A join that writes the delimiter after every name
RECURSIVE PackTrailingDelim(_)
PackTrailingDelim(names) ==
    IF names = <<>> THEN <<>>
    ELSE names[1] \o <<Delim>> \o PackTrailingDelim(Tail(names))

\* delim.join(binding_names)
RECURSIVE _pack_binding_names(_)
_pack_binding_names(names) ==
    IF names = <<>> THEN <<>>
    ELSE IF Len(names) = 1 THEN names[1]
    ELSE names[1] \o <<Delim>> \o _pack_binding_names(Tail(names))

\* Splitting on the delimiter: the fields between consecutive delimiters, empty
\* fields kept; the field being read is `field`.
RECURSIVE SplitFrom(_, _)
SplitFrom(s, field) ==
    IF s = <<>> THEN <<field>>
    ELSE IF Head(s) = Delim THEN <<field>> \o SplitFrom(Tail(s), <<>>)
    ELSE SplitFrom(Tail(s), Append(field, Head(s)))

Unpack(s) == SplitFrom(s, <<>>)

pack ==
    /\ Running("pack")
    /\ packed' = _pack_binding_names(binding_names)
    /\ Goto("unpack")
    /\ UNCHANGED <<gmv, loc, binding_names, unpacked, mdv>>

unpack ==
    /\ Running("unpack")
    /\ unpacked' = Unpack(packed)
    /\ Return("names")
    /\ UNCHANGED <<gmv, loc, binding_names, packed, mdv>>

----------------------------------------------------------------------------
(* TorchTensorRTModule: construction, forward, get/set_extra_state          *)

\* An Optional value is a sequence of at most one element
None == <<>>

Some(x) == <<x>>

The(opt) == opt[1]

\* CompilationSettings, as far as the module reads it
Settings(hardware_compatible) == [hardware_compatible |-> hardware_compatible]

\* base64 text of a value, and its decoding
b64encode(x) == <<"b64", x>>

b64decode(x) == x[2]

\* pickle + base64 of the settings, and the way back
encode_metadata(settings) == b64encode(settings)

decode_metadata(encoded_settings) == b64decode(encoded_settings)

\* str(int(flag)) and bool(int(text))
FlagStr(flag) == IF flag THEN "1" ELSE "0"

FlagOf(text) == text # "0"

\* torch.classes.tensorrt.Engine(info): the handle keeps the 8 fields
Engine(info) == [info |-> info]

\* TorchTensorRTModule(serialized_engine, name, input_binding_names,
\* output_binding_names, settings); an omitted list is None
__init__(serialized_engine, name, input_binding_names, output_binding_names, settings) ==
    LET ins == IF input_binding_names # None THEN The(input_binding_names) ELSE <<>>
        outs == IF output_binding_names # None THEN The(output_binding_names) ELSE <<>>
    IN [name |-> name,
        input_binding_names |-> ins,
        output_binding_names |-> outs,
        hardware_compatible |-> settings.hardware_compatible,
        settings |-> settings,
        engine |->
            IF serialized_engine # None
            THEN Some(Engine(<<"abi",
                          IF name # "" THEN name \o "_engine" ELSE "tensorrt_engine",
                          "device",
                          The(serialized_engine),
                          _pack_binding_names(ins),
                          _pack_binding_names(outs),
                          FlagStr(settings.hardware_compatible),
                          encode_metadata(settings)>>))
            ELSE None]

\* self.engine is None
EngineNeverUnset(m) == FALSE

EngineUnset(m) == m.engine = None

\* line 187-188
forward ==
    /\ Running("forward")
    /\ IF EngineUnset(self)
       THEN Raise("RuntimeError", <<"Engine has not been initialized yet.">>)
       ELSE Goto("forward_count")
    /\ UNCHANGED <<gmv, loc, rtv>>

\* line 190-192
forward_count ==
    /\ Running("forward_count")
    /\ IF Len(fwd_inputs) = Len(self.input_binding_names)
       THEN Goto("forward_execute")
       ELSE Raise("AssertionError", <<"Wrong number of inputs">>)
    /\ UNCHANGED <<gmv, loc, rtv>>

\* line 199-210
forward_execute ==
    /\ Running("forward_execute")
    /\ executed' = TRUE
    /\ Return("outputs")
    /\ UNCHANGED <<gmv, loc, binding_names, packed, unpacked, self, self0, fwd_inputs, state>>

\* Engine.__getstate__(): the 8 fields, the engine bytes as base64 text
EngineGetState(engine) == [engine.info EXCEPT ![4] = b64encode(@)]

\* line 142-148
get_extra_state ==
    /\ Running("get_extra_state")
    /\ state' = <<self.name,
                  IF self.engine # None THEN Some(EngineGetState(The(self.engine)))
                  ELSE None,
                  self.input_binding_names,
                  self.output_binding_names>>
    /\ Goto("set_extra_state")
    /\ UNCHANGED <<gmv, loc, binding_names, packed, unpacked, self, self0, fwd_inputs,
                   executed>>

\* line 151-175: the fields set_extra_state assigns to module m before it
\* decodes the settings
Restored(m, extra) ==
    [m EXCEPT
        !.name = extra[1],
        !.engine =
            IF extra[2] # None
            THEN LET serialized_engine_info == The(extra[2])
                 IN Some(Engine(<<serialized_engine_info[1],
                                  serialized_engine_info[2],
                                  serialized_engine_info[3],
                                  b64decode(serialized_engine_info[4]),
                                  serialized_engine_info[5],
                                  serialized_engine_info[6],
                                  serialized_engine_info[7],
                                  serialized_engine_info[8]>>))
            ELSE None,
        !.input_binding_names = extra[3],
        !.output_binding_names = extra[4],
        !.hardware_compatible =
            IF extra[2] # None THEN FlagOf(The(extra[2])[7]) ELSE FALSE]

\* line 150-176, called on the module itself or on a newly built
\* TorchTensorRTModule(); serialized_engine_info is bound only when state[1]
\* is not None, and line 176 reads it in either case
set_extra_state ==
    /\ Running("set_extra_state")
    /\ \E receiver \in {self, __init__(None, "", None, None, Settings(FALSE))} :
       \E m \in {Restored(receiver, state)} :
          IF state[2] # None
          THEN /\ self' = [m EXCEPT !.settings = decode_metadata(The(state[2])[8])]
               /\ Return("None")
          ELSE /\ self' = m
               /\ Raise("UnboundLocalError", <<"serialized_engine_info">>)
    /\ UNCHANGED <<gmv, loc, binding_names, packed, unpacked, self0, fwd_inputs, state,
                   executed>>

----------------------------------------------------------------------------
(* Initial states: the call the caller makes and its arguments              *)

EmptyGm == [graph |-> EmptyGraph, children |-> <<>>, state |-> {}, params |-> {},
            buffers |-> {}, attrs |-> {}, fake_mode |-> FALSE]

EmptySig == [input_specs |-> <<>>, output_specs |-> <<>>]

NoLift == [state_dict |-> <<>>, first_user_input |-> "", non_user_input_idx |-> 0]

Idle ==
    /\ err = ""
    /\ err_info = <<>>
    /\ result = ""
    /\ suspended = FALSE
    /\ sig = EmptySig
    /\ trt_i = 0
    /\ cur = ""
    /\ sub = ""
    /\ updated_state_dict = <<>>
    /\ lift_loc = NoLift
    /\ val_map = <<>>
    /\ packed = <<>>
    /\ unpacked = <<>>
    /\ state = <<>>
    /\ executed = FALSE

\* No runtime module takes part in the call
NoModule ==
    /\ self = None
    /\ self0 = None
    /\ fwd_inputs = <<>>

\* An unlifted module: user inputs u1..uU, one get_attr node per target of
\* `attrs` in that order, a call that uses them all, the output.
Params == {<<"p1">>, <<"p2">>}
Buffers == {<<"b1">>}
Constants == {<<"c1">>}
Missing == {<<"missing">>}
AttrTargets == Params \cup Buffers \cup Constants \cup Missing

UnliftedGraph(U, attrs) ==
    LET phs == [i \in 1..U |->
                   MkNode("u" \o ToString(i), "placeholder", <<"u" \o ToString(i)>>,
                          <<>>, -1, "", TensorVal(<<1>>))]
        gets == [i \in 1..Len(attrs) |->
                   MkNode(TargetStr(attrs[i]), "get_attr", attrs[i], <<>>, -1, "", NoVal)]
        names == [i \in 1..(U + Len(attrs)) |->
                   IF i <= U THEN phs[i].name ELSE gets[i - U].name]
        call == MkNode("cat", "call_function", <<"cat">>, names, -1, "", NoVal)
        out == MkNode("output", "output", <<"output">>, <<"cat">>, -1, "", NoVal)
    IN AppendNodes(EmptyGraph, phs \o gets \o <<call, out>>)

UnliftedGm(U, attrs, fake) ==
    [graph |-> UnliftedGraph(U, attrs), children |-> <<>>,
     state |-> Params \cup Buffers \cup Constants, params |-> Params,
     buffers |-> Buffers, attrs |-> Params \cup Buffers \cup Constants,
     fake_mode |-> fake]

\* A partitioned module: the user input x, then a chain of stages, each an
\* accelerated or a host-executed submodule fed by the stage before it, then the
\* output.  A stage is [kind, nout, rev, skip, hasw]:
\*   kind "acc": nout outputs; with two, the index-access nodes of the
\*       partitioner exist already, created in index order or (rev) in the
\*       opposite order, and a call joins them
\*   kind "gpu": a host-executed submodule add(inputs [, w]); the first stage
\*       reads x through a placeholder named x, a later one reads the stage
\*       before it through a placeholder of its own and (skip) x as well
\*       through a placeholder named x; hasw: it owns a parameter w
Stage(kind, nout, rev, skip, hasw) ==
    [kind |-> kind, nout |-> nout, rev |-> rev, skip |-> skip, hasw |-> hasw,
     form |-> ""]

\* A host-executed first stage that reads the two user inputs x and y of the
\* parent through placeholders named x and y, in the order "xy" or "yx"
TwoInputStage(order) == [Stage("gpu", 1, FALSE, FALSE, FALSE) EXCEPT !.form = order]

TwoInputNames(st) == IF st.form = "xy" THEN <<"x", "y">> ELSE <<"y", "x">>

\* A host-executed later stage that reads the stage before it through a
\* placeholder that has the name of the parent's placeholder x
AliasStage == [Stage("gpu", 1, FALSE, FALSE, FALSE) EXCEPT !.form = "alias"]

IsTwoInput(st) == st.form \in {"xy", "yx"}

StageTypes ==
    {Stage("acc", 1, FALSE, FALSE, FALSE), Stage("acc", 2, FALSE, FALSE, FALSE),
     Stage("acc", 2, TRUE, FALSE, FALSE)}
    \cup {Stage("gpu", 1, FALSE, skip, hasw) : skip \in BOOLEAN, hasw \in BOOLEAN}
    \cup {TwoInputStage(order) : order \in {"xy", "yx"}}
    \cup {AliasStage}

OutShapes(nout) == IF nout = 1 THEN <<<<1>>>> ELSE <<<<2, 3>>, <<4>>>>

GetitemName(i, k) == "getitem_s" \o ToString(i) \o "_" \o ToString(k)

HostGraph(i, st) ==
    LET names == IF IsTwoInput(st) THEN TwoInputNames(st)
                 ELSE IF i = 1 \/ st.form = "alias" THEN <<"x">>
                 ELSE IF st.skip THEN <<"x", "mid" \o ToString(i)>>
                 ELSE <<"mid" \o ToString(i)>>
        phs == [k \in 1..Len(names) |->
                   MkNode(names[k], "placeholder", <<names[k]>>, <<>>, -1, "",
                          TensorVal(<<1>>))]
        w == IF st.hasw THEN <<MkNode("w", "get_attr", <<"w">>, <<>>, -1, "", NoVal)>>
             ELSE <<>>
        add == MkNode("add", "call_function", <<"add">>,
                      names \o (IF st.hasw THEN <<"w">> ELSE <<>>), -1, "", TensorVal(<<1>>))
        out == MkNode("output", "output", <<"output">>, <<"add">>, -1, "", NoVal)
    IN AppendNodes(EmptyGraph, phs \o w \o <<add, out>>)

Child(i, st) ==
    IF st.kind = "acc"
    THEN [name |-> AccName(i), graph |-> EmptyGraph, state |-> {<<"_extra_state">>},
          params |-> {}, engine |-> "engine" \o ToString(i),
          out_shapes |-> OutShapes(st.nout)]
    ELSE [name |-> GpuName(i), graph |-> HostGraph(i, st),
          state |-> IF st.hasw THEN {<<"w">>} ELSE {},
          params |-> IF st.hasw THEN {<<"w">>} ELSE {}, engine |-> "",
          out_shapes |-> <<>>]

\* The parent-graph nodes of stage i, and the node that carries its value
StageNodes(i, st, prev) ==
    IF st.kind = "acc"
    THEN LET call == MkNode(AccName(i), "call_module", <<AccName(i)>>, <<prev>>, -1, "", NoVal)
             g0 == MkNode(GetitemName(i, 0), "call_function", <<"getitem">>,
                          <<AccName(i)>>, 0, "", NoVal)
             g1 == MkNode(GetitemName(i, 1), "call_function", <<"getitem">>,
                          <<AccName(i)>>, 1, "", NoVal)
             join == MkNode("join" \o ToString(i), "call_function", <<"add">>,
                            <<g0.name, g1.name>>, -1, "", NoVal)
         IN IF st.nout = 1 THEN <<call>>
            ELSE IF st.rev THEN <<call, g1, g0, join>> ELSE <<call, g0, g1, join>>
    ELSE <<MkNode(GpuName(i), "call_module", <<GpuName(i)>>,
                  IF IsTwoInput(st) THEN TwoInputNames(st)
                  ELSE IF i > 1 /\ st.skip THEN <<"x", prev>> ELSE <<prev>>,
                  -1, "", NoVal)>>

StageValue(i, st) ==
    IF st.kind = "acc" THEN (IF st.nout = 1 THEN AccName(i) ELSE "join" \o ToString(i))
    ELSE GpuName(i)

RECURSIVE StagesNodes(_, _, _)
StagesNodes(stages, i, prev) ==
    IF i > Len(stages) THEN
        <<MkNode("output", "output", <<"output">>, <<prev>>, -1, "", NoVal)>>
    ELSE StageNodes(i, stages[i], prev)
         \o StagesNodes(stages, i + 1, StageValue(i, stages[i]))

PartitionedGm(stages) ==
    [graph |-> AppendNodes(EmptyGraph,
                   <<MkNode("x", "placeholder", <<"x">>, <<>>, -1, "", TensorVal(<<1>>))>>
                   \o (IF IsTwoInput(stages[1])
                       THEN <<MkNode("y", "placeholder", <<"y">>, <<>>, -1, "",
                                     TensorVal(<<1>>))>>
                       ELSE <<>>)
                   \o StagesNodes(stages, 1, "x")),
     children |-> [i \in 1..Len(stages) |-> Child(i, stages[i])],
     state |-> {}, params |-> {}, buffers |-> {}, attrs |-> {}, fake_mode |-> TRUE]

Formats == {"exported_program", "ep", "torchscript", "ts", "graph_module", "fx",
            "onnx", ""}

InitExport ==
    /\ entry = "export"
    /\ pc = "export"
    /\ output_format \in Formats
    /\ hook \in {"pdb", "0"}
    /\ \E stages \in SeqsUpTo(StageTypes, MaxStages) :
          /\ stages # <<>>
          /\ ~stages[1].skip
          /\ stages[1].form # "alias"
          /\ \A i \in 2..Len(stages) : ~IsTwoInput(stages[i])
          /\ gm = PartitionedGm(stages)
    /\ gm0 = gm
    /\ outputs_map = <<>>
    /\ binding_names = <<>>
    /\ NoModule
    /\ Idle

InitCreate ==
    /\ entry = "create_trt_exp_program"
    /\ pc = "create"
    /\ output_format = ""
    /\ hook = "pdb"
    /\ \E U \in 0..MaxUserInputs, fake \in BOOLEAN :
       \E attrs \in {a \in SeqsUpTo(AttrTargets, MaxAttrs) : NoRepeat(a)} :
          gm = UnliftedGm(U, attrs, fake)
    /\ gm0 = gm
    /\ outputs_map = <<>>
    /\ binding_names = <<>>
    /\ NoModule
    /\ Idle

Chars == {"a", Delim}

InitPack ==
    /\ entry = "_pack_binding_names"
    /\ pc = "pack"
    /\ output_format = ""
    /\ hook = "pdb"
    /\ gm = EmptyGm
    /\ gm0 = gm
    /\ outputs_map = <<>>
    /\ binding_names \in SeqsUpTo(SeqsUpTo(Chars, MaxNameLen), MaxNames)
    /\ NoModule
    /\ Idle

\* The modules a caller can have built: with or without a serialized engine,
\* named or not, with binding-name lists of up to MaxNames names
BindingNames == SeqsUpTo({<<"a">>}, MaxNames)

Modules ==
    {__init__(e, n, i, o, Settings(h)) :
        e \in {None, Some("bytes")}, n \in {"", "m"},
        i \in {None} \cup {Some(b) : b \in BindingNames},
        o \in {None, Some(<<<<"a">>>>)}, h \in BOOLEAN}

InitForward ==
    /\ entry = "forward"
    /\ pc = "forward"
    /\ output_format = ""
    /\ hook = "pdb"
    /\ gm = EmptyGm
    /\ gm0 = gm
    /\ outputs_map = <<>>
    /\ binding_names = <<>>
    /\ self \in Modules
    /\ self0 = self
    /\ fwd_inputs \in SeqsUpTo({"t"}, MaxNames)
    /\ Idle

InitExtraState ==
    /\ entry = "get_extra_state"
    /\ pc = "get_extra_state"
    /\ output_format = ""
    /\ hook = "pdb"
    /\ gm = EmptyGm
    /\ gm0 = gm
    /\ outputs_map = <<>>
    /\ binding_names = <<>>
    /\ self \in Modules
    /\ self0 = self
    /\ fwd_inputs = <<>>
    /\ Idle

\* copy_submodule_attributes(gm, submodule, submodule_name) on a module that
\* owns some of OwnKeys and has the submodule as a child; the submodule owns
\* some of SubKeys, the last of them through a child of its own that has the
\* submodule's name
OwnKeys == {<<"w">>, <<"v">>}

SubKeys == {<<"w">>, <<"b">>, <<GpuName(1), ".", "w">>}

InitCopyAttributes ==
    /\ entry = "copy_submodule_attributes"
    /\ pc = "copy_submodule_attributes"
    /\ output_format = ""
    /\ hook \in {"pdb", "0"}
    /\ \E own \in SUBSET OwnKeys, keys \in SUBSET SubKeys :
          gm = [EmptyGm EXCEPT
                   !.state = own, !.params = own,
                   !.children = <<[name |-> GpuName(1), graph |-> EmptyGraph,
                                   state |-> keys, params |-> keys, engine |-> "",
                                   out_shapes |-> <<>>]>>]
    /\ gm0 = gm
    /\ outputs_map = <<>>
    /\ binding_names = <<>>
    /\ NoModule
    /\ err = ""
    /\ err_info = <<>>
    /\ result = ""
    /\ suspended = FALSE
    /\ sig = EmptySig
    /\ trt_i = 0
    /\ cur = ""
    /\ sub = GpuName(1)
    /\ updated_state_dict = <<>>
    /\ lift_loc = NoLift
    /\ val_map = <<>>
    /\ packed = <<>>
    /\ unpacked = <<>>
    /\ state = <<>>
    /\ executed = FALSE

Init ==
    \/ InitExport
    \/ InitCreate
    \/ InitPack
    \/ InitForward
    \/ InitCopyAttributes
    \/ InitExtraState

Next ==
    \/ export
    \/ run_shape_analysis
    \/ inline_trt_modules
    \/ inline_torch_begin
    \/ inline_torch_copy
    \/ copy_submodule_attributes
    \/ copy_attributes_build
    \/ copy_attributes_load
    \/ inline_torch_end
    \/ transform_clean
    \/ debugger_continue
    \/ debugger_quit
    \/ create_trt_exp_program
    \/ lift_begin
    \/ lift_get_attr
    \/ lift_end
    \/ assemble
    \/ pack
    \/ unpack
    \/ forward
    \/ forward_count
    \/ forward_execute
    \/ get_extra_state
    \/ set_extra_state

Spec == Init /\ [][Next]_vars

\* The interpreter runs the call to its end; nothing obliges the person at the
\* debugger prompt to answer.
Program ==
    \/ export
    \/ run_shape_analysis
    \/ inline_trt_modules
    \/ inline_torch_begin
    \/ inline_torch_copy
    \/ copy_submodule_attributes
    \/ copy_attributes_build
    \/ copy_attributes_load
    \/ inline_torch_end
    \/ transform_clean
    \/ create_trt_exp_program
    \/ lift_begin
    \/ lift_get_attr
    \/ lift_end
    \/ assemble
    \/ pack
    \/ unpack
    \/ forward
    \/ forward_count
    \/ forward_execute
    \/ get_extra_state
    \/ set_extra_state

FairSpec == Spec /\ WF_vars(Program)

----------------------------------------------------------------------------
(* Properties                                                               *)

ValidFormats == {"exported_program", "ep", "torchscript", "ts", "graph_module", "fx"}

GetAttrs(G) == SelectSeq(G.nodes, LAMBDA n : n.op = "get_attr")

EngineCalls(G) == SelectSeq(G.nodes, LAMBDA n : n.target = <<"execute_engine">>)

IndexAccesses(G) == SelectSeq(G.nodes, LAMBDA n : n.target = <<"getitem">>)

CallModules(G) == SelectSeq(G.nodes, LAMBDA n : n.op = "call_module")

Kinds(specs) == [i \in 1..Len(specs) |-> specs[i].kind]

Repeat(x, n) == [i \in 1..n |-> x]

\* lift has returned to create_trt_exp_program
LiftReturned == pc = "assemble" \/ (pc = "done" /\ result = "ExportedProgram")

\* lift was called directly on the module the caller passed
LiftOnCallersModule == entry = "create_trt_exp_program"

\* C1: after lift, input_specs is the P PARAMETER entries, then the B BUFFER
\* entries, then the C CONSTANT_TENSOR entries, then the U original USER_INPUT
\* entries in their original order, whatever the graph order of the get_attr
\* nodes was.
C1_SignatureOrdered ==
    (LiftReturned /\ LiftOnCallersModule) =>
        LET gets == GetAttrs(gm0.graph)
            P == Len(SelectSeq(gets, LAMBDA n : n.target \in NamedParameters(gm0)))
            B == Len(SelectSeq(gets, LAMBDA n : n.target \in NamedBuffers(gm0)))
            C == Len(gets) - P - B
            users == Placeholders(gm0.graph)
            specs == sig.input_specs
        IN /\ Len(specs) = P + B + C + Len(users)
           /\ Kinds(specs) = Repeat("PARAMETER", P) \o Repeat("BUFFER", B)
                                \o Repeat("CONSTANT_TENSOR", C)
                                \o Repeat("USER_INPUT", Len(users))
           /\ \A i \in 1..Len(users) :
                  specs[P + B + C + i] =
                      InputSpec("USER_INPUT", users[i].name, users[i].target)

\* The accelerated children of the module the caller passed that declare n >= 2
\* output shapes and whose engine call is in the graph
InlinedMultiOutput ==
    {i \in 1..Len(gm0.children) :
        /\ IsAcc(gm0.children[i].name)
        /\ Len(gm0.children[i].out_shapes) >= 2
        /\ \E k \in 1..Len(gm.graph.nodes) :
               gm.graph.nodes[k].engine = gm0.children[i].engine}

\* C2: once inline_trt_modules has replaced an accelerated submodule declared
\* with n >= 2 output shapes, the engine call's metadata list has length n and
\* every index-access node reading index i of it carries the metadata of the
\* i-th declared shape, whatever the order of those nodes among the users.
C2_MultiOutputMetadata ==
    \A i \in InlinedMultiOutput :
        LET shapes == gm0.children[i].out_shapes
            ns == gm.graph.nodes
        IN \A k \in 1..Len(ns) :
              ns[k].engine = gm0.children[i].engine =>
                  /\ ns[k].val = ListVal(shapes)
                  /\ \A j \in 1..Len(ns) :
                         (ns[j].target = <<"getitem">> /\ ns[j].args = <<ns[k].name>>) =>
                             ns[j].val = TensorVal(shapes[ns[j].idx + 1])

\* The host-executed child `name` has a single input placeholder, and a
\* placeholder of the parent graph has the same name.
SoleDuplicate(m, name) ==
    /\ name \in ChildNames(m)
    /\ LET phs == Placeholders(ChildOf(m, name).graph)
       IN /\ Len(phs) = 1
          /\ \E i \in 1..Len(m.graph.nodes) :
                 /\ m.graph.nodes[i].op = "placeholder"
                 /\ m.graph.nodes[i].name = phs[1].name

\* A step of inline_torch_modules' iteration for one call_module node
InliningStep ==
    /\ pc \in {"inline_torch", "bp235", "bp256", "bp264"}
    /\ pc' \in {"bp235", "bp256", "bp264", "inline_torch"}
    /\ pc = "inline_torch" => pc' = "bp235"

\* C3: no step of inlining a host-executed submodule whose sole input
\* placeholder has the name of a parent placeholder changes the number of
\* placeholder nodes of the parent graph.
C3_NoSecondPlaceholder ==
    [][(InliningStep /\ SoleDuplicate(gm, IF pc = "inline_torch" THEN sub' ELSE sub))
          => Len(Placeholders(gm'.graph)) = Len(Placeholders(gm.graph))]_vars

\* Witness of C3: such a submodule has been inlined and its call node erased.
C3_Witness ==
    /\ pc = "inline_torch"
    /\ sub # ""
    /\ SoleDuplicate(gm, sub)
    /\ ~HasNode(gm.graph, sub)
    /\ Len(Placeholders(gm.graph)) = 1

\* C4: when transform has returned, the parent graph has no call_module node
\* and exactly one execute_engine call per accelerated submodule.
C4_TransformInlinesAll ==
    (entry = "export" /\ pc = "create") =>
        /\ CallModules(gm.graph) = <<>>
        /\ \A i \in 1..Len(gm0.children) :
               IsAcc(gm0.children[i].name) =>
                   Len(SelectSeq(gm.graph.nodes,
                           LAMBDA n : n.target = <<"execute_engine">>
                                      /\ n.engine = gm0.children[i].engine)) = 1
        /\ Len(EngineCalls(gm.graph)) =
               Len(SelectSeq(gm0.children, LAMBDA c : IsAcc(c.name)))

\* C5: every run of the portable-export pipeline eventually completes or
\* raises, and none of its steps waits on external input.
C5_NeverSuspends ==
    (entry = "export" /\ Dispatch(output_format) = "ep") =>
        (<>(pc \in {"done", "raised"}) /\ [](~suspended))

\* C6: a pass that fails leaves the graph and the input signature the caller
\* holds as they were, never partly rewritten.
C6_NoPartialRewrite ==
    (pc = "raised" /\ err # "BdbQuit") =>
        /\ gm.graph = gm0.graph
        /\ \A i \in 1..Len(sig.input_specs) : sig.input_specs[i].kind = "USER_INPUT"

\* The ValueError is lift's, not export's.
LiftRaisedValueError ==
    /\ pc = "raised"
    /\ err = "ValueError"
    /\ ~(entry = "export" /\ output_format \notin ValidFormats)

AbsentTarget(n) == n.op = "get_attr" /\ n.target \notin StateDictKeys(gm)

\* C7: a get_attr node whose target is absent from state_dict makes lift raise
\* a ValueError naming the node and the target; lift never returns a graph that
\* had, or still has, such a node.
C7_AbsentTargetRaises ==
    /\ LiftRaisedValueError =>
           LET absent == SelectSeq(gm.graph.nodes, AbsentTarget)
           IN /\ absent # <<>>
              /\ err_info = <<absent[1].name, TargetStr(absent[1].target)>>
    /\ LiftReturned =>
           /\ GetAttrs(gm.graph) = <<>>
           /\ LiftOnCallersModule =>
                  \A i \in 1..Len(gm0.graph.nodes) :
                      gm0.graph.nodes[i].op = "get_attr" =>
                          gm0.graph.nodes[i].target \in StateDictKeys(gm0)

\* Witness of C7: lift raised on a later get_attr node after lifting earlier ones.
C7_Witness ==
    /\ LiftRaisedValueError
    /\ lift_loc.non_user_input_idx > 0
    /\ \E i \in 1..Len(gm.graph.nodes) : AbsentTarget(gm.graph.nodes[i])

\* The iteration of inline_trt_modules for an accelerated child with exactly
\* one declared output, ending without an exception
SingleOutputStep ==
    /\ pc = "inline_trt"
    /\ trt_i <= Len(gm.children)
    /\ IsAcc(gm.children[trt_i].name)
    /\ Len(outputs_map[gm.children[trt_i].name]) = 1
    /\ trt_i' = trt_i + 1
    /\ pc' # "raised"

Redirected(args, old, new) == [k \in 1..Len(args) |-> IF args[k] = old THEN new ELSE args[k]]

\* C8: for an accelerated submodule with exactly one declared output,
\* inline_trt_modules removes exactly one call_module node of that name, adds
\* exactly one execute_engine call and exactly one index-access node, which
\* reads index 0 of the engine call and to which every former user of the
\* call_module node is redirected.
C8_SingleOutputCounts ==
    [][SingleOutputStep =>
          LET name == gm.children[trt_i].name
              before == gm.graph
              after == gm'.graph
              named(G) == Len(SelectSeq(G.nodes,
                              LAMBDA n : n.op = "call_module" /\ n.name = name))
              fresh == SelectSeq(after.nodes,
                          LAMBDA n : n.target = <<"getitem">> /\ ~HasNode(before, n.name))
              engines == SelectSeq(after.nodes,
                          LAMBDA n : n.target = <<"execute_engine">> /\ ~HasNode(before, n.name))
              former == NodeOf(before, name).users
          IN /\ named(after) = named(before) - 1
             /\ Len(EngineCalls(after)) = Len(EngineCalls(before)) + 1
             /\ Len(IndexAccesses(after)) = Len(IndexAccesses(before)) + 1
             /\ Len(fresh) = 1
             /\ Len(engines) = 1
             /\ fresh[1].idx = 0
             /\ fresh[1].args = <<engines[1].name>>
             /\ engines[1].users = <<fresh[1].name>>
             /\ fresh[1].users = former
             /\ \A k \in 1..Len(former) :
                    NodeOf(after, former[k]).args =
                        Redirected(NodeOf(before, former[k]).args, name, fresh[1].name)
      ]_vars

\* Witness of C8: a single-output accelerated submodule that had a user has
\* been replaced.
C8_Witness ==
    /\ pc \in {"inline_trt", "inline_torch_begin"}
    /\ trt_i > 1
    /\ IsAcc(gm.children[trt_i - 1].name)
    /\ Len(outputs_map[gm.children[trt_i - 1].name]) = 1
    /\ \E k \in 1..Len(gm.graph.nodes) :
           /\ gm.graph.nodes[k].target = <<"getitem">>
           /\ gm.graph.nodes[k].idx = 0
           /\ gm.graph.nodes[k].users # <<>>
           /\ \E j \in 1..Len(gm.graph.nodes) :
                  /\ gm.graph.nodes[j].engine = gm.children[trt_i - 1].engine
                  /\ gm.graph.nodes[k].args = <<gm.graph.nodes[j].name>>

\* C9: export with an output_format outside the six accepted strings raises a
\* ValueError, runs no rewrite pass and leaves the module as it was.
C9_InvalidFormatRaises ==
    (entry = "export" /\ output_format \notin ValidFormats) =>
        /\ pc \in {"export", "raised"}
        /\ pc = "raised" => (err = "ValueError" /\ err_info = <<output_format>>)
        /\ result = ""
        /\ gm = gm0
        /\ sig = EmptySig

\* Witness of C9: export has raised on an unknown format.
C9_Witness ==
    /\ entry = "export"
    /\ output_format = "onnx"
    /\ pc = "raised"
    /\ CallModules(gm.graph) # <<>>

NoDelim(names) == \A i \in 1..Len(names) : Delim \notin Range(names[i])

Unpacked == entry = "_pack_binding_names" /\ pc = "done"

C11_ForwardChecksInOrder ==
    entry = "forward" =>
        /\ self.engine = None =>
              /\ ~executed
              /\ pc \in {"forward", "raised"}
              /\ pc = "raised" => err = "RuntimeError"
        /\ (self.engine # None /\ Len(fwd_inputs) # Len(self.input_binding_names)) =>
              /\ ~executed
              /\ pc \in {"forward", "forward_count", "raised"}
              /\ pc = "raised" => err = "AssertionError"

C11_Witness ==
    /\ entry = "forward"
    /\ self.engine = None
    /\ Len(fwd_inputs) # Len(self.input_binding_names)
    /\ pc = "raised"
    /\ err = "RuntimeError"
    /\ ~executed


\* C12: whenever inline_torch_modules has built its rename map and copied a
\* host-executed submodule, the map sends every duplicate placeholder of the
\* submodule to the parent node of the same name, and no two placeholders to
\* the same parent node, whatever the order of the two lists.
Copied == entry = "export" /\ pc = "bp235"

C12_RenameMapByName ==
    Copied =>
        /\ \A n \in DOMAIN val_map : val_map[n] = n
        /\ \A n, k \in DOMAIN val_map : val_map[n] = val_map[k] => n = k


PlaceholderNames(G) == {n.name : n \in Range(Placeholders(G))}

\* inline_torch_modules has finished the graph surgery of at least one
\* host-executed call_module node, or is between two of them
InTorchInlining ==
    entry = "export" /\ pc \in {"inline_torch", "bp235", "bp256", "bp264", "bp66"}

\* C13: once inline_torch_modules has inlined a host-executed submodule the
\* parent graph has exactly the placeholders it had when the pass began: no
\* placeholder copied from a submodule is left behind, whether none, all or
\* some of the submodule's placeholders have the name of a parent node.
C13_NoOrphanPlaceholder ==
    InTorchInlining => PlaceholderNames(gm.graph) = PlaceholderNames(gm0.graph)


\* The nodes of a submodule graph that graph_copy always copies as they are:
\* neither input placeholders nor the output
Body(S) == SelectSeq(S.nodes, LAMBDA n : n.op \notin {"placeholder", "output"})

\* The copies of those nodes in the parent: graph_copy inserted them, in
\* order, immediately before the call_module node
CopiedBody(G, S, call) ==
    SubSeq(G.nodes, IndexOf(G, call) - Len(Body(S)), IndexOf(G, call) - 1)

\* C14: when inline_torch_modules has copied a host-executed submodule into
\* the parent, every argument of a copied node that was the submodule's i-th
\* input placeholder is the i-th argument of the call_module node, on the
\* path with duplicate names as well.
C14_CopiesReadCallArguments ==
    Copied =>
        LET S == ChildOf(gm, sub).graph
            phs == Placeholders(S)
            call == NodeOf(gm.graph, sub)
            body == Body(S)
            copies == CopiedBody(gm.graph, S, sub)
        IN \A j \in 1..Len(body) : \A a \in 1..Len(body[j].args) :
               \A i \in 1..Len(phs) :
                   body[j].args[a] = phs[i].name => copies[j].args[a] = call.args[i]


StartsWith(key, prefix) ==
    Len(key) >= Len(prefix) /\ SubSeq(key, 1, Len(prefix)) = prefix

Remainder(key, prefix) == SubSeq(key, Len(prefix) + 1, Len(key))

\* copy_submodule_attributes has built updated_state_dict
Reconciled == pc = "bp264"

\* C15: in the store copy_submodule_attributes builds, a key of the parent
\* store that starts with "<submodule_name>." and whose remainder is a key of
\* the submodule's state is held under the remainder and not under its own
\* name; every other key is held under its own name with its own tensor.
C15_ReconciledStore ==
    Reconciled =>
        LET prefix == <<sub, ".">>
            sub_keys == ChildOf(gm, sub).state
        IN \A key \in StateDictKeys(gm) :
               IF StartsWith(key, prefix) /\ Remainder(key, prefix) \in sub_keys
               THEN /\ Remainder(key, prefix) \in DOMAIN updated_state_dict
                    /\ updated_state_dict[Remainder(key, prefix)] = key
                    /\ \A k \in DOMAIN updated_state_dict :
                           updated_state_dict[k] = key => k = Remainder(key, prefix)
               ELSE /\ key \in DOMAIN updated_state_dict
                    /\ updated_state_dict[key] = key


\* Names the signature gives to lifted inputs, and to declared user inputs
LiftedNames(s) ==
    {s.input_specs[i].arg : i \in {j \in 1..Len(s.input_specs) :
                                      s.input_specs[j].kind # "USER_INPUT"}}

\* The placeholder of graph G that lift created for `target`
LiftedPlaceholder(G, s, target) ==
    CHOOSE n \in Range(Placeholders(G)) : n.target = target /\ n.name \in LiftedNames(s)

\* C16: when lift has returned, the graph has no get_attr node, every node
\* that read a get_attr node reads, at the same argument position, the
\* placeholder created for that node's target, and every lifted placeholder
\* comes before every declared user-input placeholder in graph order.
C16_LiftedGraph ==
    LiftReturned =>
        /\ GetAttrs(gm.graph) = <<>>
        /\ LiftOnCallersModule =>
              \A g \in Range(GetAttrs(gm0.graph)) :
                  /\ \E n \in Range(Placeholders(gm.graph)) :
                         n.target = g.target /\ n.name \in LiftedNames(sig)
                  /\ \A u \in Range(gm0.graph.nodes) : \A a \in 1..Len(u.args) :
                         u.args[a] = g.name =>
                             /\ HasNode(gm.graph, u.name)
                             /\ NodeOf(gm.graph, u.name).args[a] =
                                    LiftedPlaceholder(gm.graph, sig, g.target).name
                             /\ u.name \in Range(LiftedPlaceholder(gm.graph, sig,
                                                                  g.target).users)
        /\ \A i, j \in 1..Len(gm.graph.nodes) :
               (/\ gm.graph.nodes[i].op = "placeholder"
                /\ gm.graph.nodes[i].name \in LiftedNames(sig)
                /\ gm.graph.nodes[j].op = "placeholder"
                /\ gm.graph.nodes[j].name \in UserInputs(sig)) => i < j

\* Witness of C16: create_trt_exp_program has returned for a module with two
\* user inputs and three get_attr nodes, all lifted.
C16_Witness ==
    /\ LiftOnCallersModule
    /\ pc = "done"
    /\ result = "ExportedProgram"
    /\ Len(Placeholders(gm0.graph)) = 2
    /\ Len(GetAttrs(gm0.graph)) = 3
    /\ Len(Placeholders(gm.graph)) = 5
    /\ GetAttrs(gm.graph) = <<>>


\* C17: when create_trt_exp_program has lifted the module, input_specs and the
\* placeholders of the graph agree position by position: as many entries as
\* placeholders, the i-th entry naming the i-th placeholder in graph order.
C17_SpecsFollowGraphOrder ==
    LiftReturned =>
        LET phs == Placeholders(gm.graph)
        IN /\ Len(sig.input_specs) = Len(phs)
           /\ \A i \in 1..Len(phs) : sig.input_specs[i].arg = phs[i].name


\* The call set_extra_state(get_extra_state()) is over
ExtraStateApplied ==
    entry = "get_extra_state" /\ pc \notin {"get_extra_state", "set_extra_state"}

\* C18: set_extra_state applied to what get_extra_state returned completes
\* without an exception and leaves a module with the name, the input and
\* output binding names and the engine-present/absent status of the module
\* the state was taken from, whether or not that module has an engine.
C18_ExtraStateRoundTrip ==
    ExtraStateApplied =>
        /\ pc = "done"
        /\ err = ""
        /\ self.name = self0.name
        /\ self.input_binding_names = self0.input_binding_names
        /\ self.output_binding_names = self0.output_binding_names
        /\ (self.engine = None) <=> (self0.engine = None)

============================================================================
